---- MODULE Spec2Model ----
(***************************************************************************)
(* RAiDER: the orbit acquisition of tools/RAiDER/s1_orbits.py              *)
(* (ensure_orbit_credentials, get_orbits_from_slc_ids, download_eofs) and  *)
(* the epoch loop of calcDelays in tools/RAiDER/cli/__main__.py.           *)
(*                                                                         *)
(* Python strings that the code inspects character by character (SLC       *)
(* identifiers, output file names) are sequences of one-character strings. *)
(***************************************************************************)
EXTENDS Integers, Sequences, FiniteSets, TLC

VARIABLES
    \* ---- s1_orbits.py ----
    netrc_file,     \* ~/.netrc on disk: [exists, mode, text]; text maps machine -> entry
    environ,        \* os.environ: [ESA_USERNAME, ESA_PASSWORD]
    pc,             \* position of the running call: idle, parse, try, except, done
    caller,         \* the function that was called: none, ensure_orbit_credentials,
                    \* get_orbits_from_slc_ids, download_eofs
    slc_ids,        \* argument of get_orbits_from_slc_ids
    dts,            \* argument dts of download_eofs
    missions,       \* argument missions of download_eofs
    idx,            \* position of the for loop of download_eofs in zip(dts, missions)
    orb_files,      \* local orb_files of download_eofs
    outcome,        \* how the last call ended: [kind, value]
    eof_calls,      \* the calls of eof.download.download_eofs made by the current call
    ensure_ret,     \* what ensure_orbit_credentials returned in the current call
    store_at_entry, \* netrc_file when the current call entered ensure_orbit_credentials
    store_writes,   \* number of netrc_file.write_text calls of the current call
    ensured,        \* TRUE once some call of ensure_orbit_credentials has returned
    \* ---- cli/__main__.py, calcDelays ----
    params,         \* the parameter structure checkArgs returns
    args,           \* the command line: [download_only]
    dpc,            \* position of calcDelays: wm, delay, write, returned, raised
    job,            \* position of the for loop in zip(date_list, wetFilenames, hydroFilenames)
    delay_dct,      \* local delay_dct: date -> (out_filename, f)
    weather_model_file, \* local weather_model_file of the running job
    wet_delay,      \* local wet_delay of the running job
    hydro_delay,    \* local hydro_delay of the running job
    wm_calls,       \* the calls of prepareWeatherModel made so far
    delay_calls,    \* the calls of tropo_delay made so far
    writer_calls,   \* the calls of ds.to_netcdf and writeDelays made so far
    job_state,      \* per job, how far the loop body got with it
    d_outcome       \* how calcDelays ended: [kind, value]

orbit_vars == <<netrc_file, environ, pc, caller, slc_ids, dts, missions, idx,
                orb_files, outcome, eof_calls, ensure_ret, store_at_entry,
                store_writes, ensured>>

delay_vars == <<params, args, dpc, job, delay_dct, weather_model_file, wet_delay,
                hydro_delay, wm_calls, delay_calls, writer_calls, job_state,
                d_outcome>>

vars == <<orbit_vars, delay_vars>>

-----------------------------------------------------------------------------
(* Python values *)

\* Python objects of different types that one variable can hold
None == [type |-> "NoneType"]
StrVal(s) == [type |-> "str", value |-> s]
IntVal(n) == [type |-> "int", value |-> n]
ListVal(items) == [type |-> "list", items |-> items]
DictVal(items) == [type |-> "dict", items |-> items]

\* f"{x}" of None or a str: None becomes the text "None"
Format(x) == IF x = None THEN "None" ELSE x.value

Min(a, b) == IF a <= b THEN a ELSE b

\* zip(a, b): pairs up to the shorter of the two
Zip(a, b) == [k \in 1..Min(Len(a), Len(b)) |-> <<a[k], b[k]>>]

\* s[0:n] of a Python string
Prefix(s, n) == SubSeq(s, 1, Min(n, Len(s)))

-----------------------------------------------------------------------------
(* ensure_orbit_credentials *)

ESA_CDSE_HOST == "dataspace.copernicus.eu"

\* another machine a user's ~/.netrc may hold
OTHER_HOST == "urs.earthdata.nasa.gov"

\* a file created with the permission bits 0o644
NETRC_MODE_WorldReadable == {"S_IRUSR", "S_IWUSR", "S_IRGRP", "S_IROTH"}

\* netrc_file.touch(mode=0o600): the permission bits of the created file
NETRC_MODE == {"S_IRUSR", "S_IWUSR"}

\* permission bits of a ~/.netrc that the user created earlier (0o644)
USER_MODE == {"S_IRUSR", "S_IWUSR", "S_IRGRP", "S_IROTH"}

\* netrc.netrc(netrc_file).hosts: machine -> (login, account, password)
NetrcParse(text) ==
    [m \in DOMAIN text |->
        <<StrVal(text[m].login), StrVal(text[m].account), StrVal(text[m].password)>>]

\* str(netrc_credentials): netrc.__repr__ formats login and password with an
\* f-string and leaves the account line out when the account is falsy
NetrcRepr(hosts) ==
    [m \in DOMAIN hosts |->
        [login    |-> Format(hosts[m][1]),
         account  |-> IF hosts[m][2] \in {None, StrVal("")} THEN "" ELSE hosts[m][2].value,
         password |-> Format(hosts[m][3])]]

\* number of characters of one entry of str(netrc_credentials):
\* "machine {m}\n\tlogin {login}\n" ["\taccount {account}\n"] "\tpassword {password}\n"
\* (the "?" below stands for the tab, the + 1 for the line break)
EntryChars(m, e) ==
    Len("machine ") + Len(m) + 1 + Len("?login ") + Len(e.login) + 1
    + (IF e.account = "" THEN 0 ELSE Len("?account ") + Len(e.account) + 1)
    + Len("?password ") + Len(e.password) + 1

RECURSIVE SumChars(_, _)
SumChars(text, ms) ==
    IF ms = {} THEN 0
    ELSE LET m == CHOOSE x \in ms : TRUE
         IN  EntryChars(m, text[m]) + SumChars(text, ms \ {m})

\* what netrc_file.write_text(s) returns: the number of characters written
TextChars(text) == SumChars(text, DOMAIN text)

\* hosts[ESA_CDSE_HOST] = (username, None, password)
InsertCredentials(hosts, username, password) ==
    [m \in DOMAIN hosts \cup {ESA_CDSE_HOST} |->
        IF m = ESA_CDSE_HOST THEN <<username, None, password>> ELSE hosts[m]]

\* a check that never raises
CredentialsMissing_Never(username, password) == FALSE

\* the guard of the raise: no credentials in the environment
CredentialsMissing(username, password) == username = None /\ password = None

\* a lookup that never finds the host, so that the environment always wins
HostKnown_Never(hosts) == FALSE

\* ESA_CDSE_HOST in netrc_credentials.hosts
HostKnown(hosts) == ESA_CDSE_HOST \in DOMAIN hosts

\* a body that writes the text, and then writes it again
ensure_orbit_credentials_WritesTwice(f, env) ==
    LET touched == IF f.exists THEN f
                   ELSE [exists |-> TRUE, mode |-> {"S_IRUSR", "S_IWUSR"}, text |-> <<>>]
        hosts == NetrcParse(touched.text)
    IN  IF ESA_CDSE_HOST \in DOMAIN hosts
        THEN [file |-> touched, ret |-> None, raised |-> FALSE, writes |-> 0]
        ELSE IF env.ESA_USERNAME = None /\ env.ESA_PASSWORD = None
        THEN [file |-> touched, ret |-> None, raised |-> TRUE, writes |-> 0]
        ELSE LET text == NetrcRepr(InsertCredentials(hosts, env.ESA_USERNAME,
                                                       env.ESA_PASSWORD))
             IN  [file |-> [touched EXCEPT !.text = text],
                  ret |-> IntVal(TextChars(text)), raised |-> FALSE, writes |-> 2]

\* The body of ensure_orbit_credentials on the file f under environment env:
\* the file it leaves, what it returns, whether it raises, how often it writes.
ensure_orbit_credentials(f, env) ==
    LET touched == IF f.exists THEN f
                   ELSE [exists |-> TRUE, mode |-> NETRC_MODE, text |-> <<>>]
        hosts == NetrcParse(touched.text)
        username == env.ESA_USERNAME
        password == env.ESA_PASSWORD
    IN  IF HostKnown(hosts)
        THEN [file |-> touched, ret |-> None, raised |-> FALSE, writes |-> 0]
        ELSE IF CredentialsMissing(username, password)
        THEN [file |-> touched, ret |-> None, raised |-> TRUE, writes |-> 0]
        ELSE LET text == NetrcRepr(InsertCredentials(hosts, username, password))
             IN  [file |-> [touched EXCEPT !.text = text],
                  ret |-> IntVal(TextChars(text)), raised |-> FALSE, writes |-> 1]

ValueError == [type |-> "ValueError"]

-----------------------------------------------------------------------------
(* get_orbits_from_slc_ids: parsing of the SLC identifiers *)

\* the end of a match of the pattern _ (a single underscore) that starts at i
RunEnd_Single(s, i) == i + 1

\* first position >= i of s that holds no "_" (Len(s)+1 when there is none):
\* the end of the match of the pattern _+ that starts at i
RECURSIVE RunEndFrom(_, _)
RunEndFrom(s, i) ==
    IF i > Len(s) \/ s[i] /= "_" THEN i ELSE RunEndFrom(s, i + 1)

RunEnd(s, i) == RunEndFrom(s, i)

\* re.split(r'_+', s) from position i on; cur is the field being read and
\* acc the fields read so far
RECURSIVE SplitFrom(_, _, _, _)
SplitFrom(s, i, cur, acc) ==
    IF i > Len(s) THEN Append(acc, cur)
    ELSE IF s[i] = "_" THEN SplitFrom(s, RunEnd(s, i), <<>>, Append(acc, cur))
    ELSE SplitFrom(s, i + 1, Append(cur, s[i]), acc)

\* re.split(r'_+', slc_id)
re_split(s) == SplitFrom(s, 1, <<>>, <<>>)

\* slc_id[0:3]
MissionOf(slc_id) == Prefix(slc_id, 3)

\* re.split(r'_+', slc_id)[4] and [5] (0-based): the 5th and 6th fields
StartIndex == 5

\* the stop time read from the field of the start time
StopIndex_Start == StartIndex

StopIndex == 6

\* x[k] of a Python list raises IndexError when the list is too short
HasIndex(fields, k) == k <= Len(fields)

\* the three list comprehensions of get_orbits_from_slc_ids; raised when one
\* of the subscripts [4], [5] raises IndexError
ParseSlcIds(ids) ==
    LET fields == [k \in 1..Len(ids) |-> re_split(ids[k])]
        ok == \A k \in 1..Len(ids) :
                  HasIndex(fields[k], StartIndex) /\ HasIndex(fields[k], StopIndex)
    IN  IF ~ok
        THEN [raised |-> TRUE, missions |-> <<>>, start_times |-> <<>>,
              stop_times |-> <<>>]
        ELSE [raised |-> FALSE,
              missions    |-> [k \in 1..Len(ids) |-> MissionOf(ids[k])],
              start_times |-> [k \in 1..Len(ids) |-> fields[k][StartIndex]],
              stop_times  |-> [k \in 1..Len(ids) |-> fields[k][StopIndex]]]

\* stop_times + start_times
DownloadArgs_StopsFirst(p) ==
    [dts |-> p.stop_times \o p.start_times, missions |-> p.missions \o p.missions]

\* the arguments get_orbits_from_slc_ids passes to download_eofs:
\* start_times + stop_times and missions * 2
DownloadArgs(p) ==
    [dts |-> p.start_times \o p.stop_times, missions |-> p.missions \o p.missions]

IndexError == [type |-> "IndexError"]

-----------------------------------------------------------------------------
(* download_eofs *)

\* what one call of eof.download.download_eofs can do: raise, return an
\* empty list, return a list of files, return a single file
ProviderResults == {"raise", "empty", "list", "path"}

\* the orbit file a provider finds for one (time token, mission) pair
OrbFile(dt, mission) == [dt |-> dt, mission |-> mission]

\* a provider whose exceptions are swallowed
Raises_Never(kind) == FALSE

\* eof.download.download_eofs raises
Raises(kind) == kind = "raise"

\* the value eof.download.download_eofs([dt], [mission], ...) returns
ProviderReturn(kind, dt, mission) ==
    [islist |-> kind /= "path",
     items  |-> IF kind = "empty" THEN <<>> ELSE <<OrbFile(dt, mission)>>]

\* orb_file[0] if isinstance(orb_file, list) else orb_file; the subscript
\* raises IndexError on an empty list
FirstRaises(rv) == rv.islist /\ rv.items = <<>>
FirstOf(rv) == rv.items[1]

\* the exception a provider raises for a pair
ProviderError(force_asf, dt, mission) ==
    [type |-> "ProviderError", force_asf |-> force_asf, dt |-> dt,
     mission |-> mission]

\* the IndexError of orb_file[0] on the empty list a provider returned
EmptyError(force_asf, dt, mission) ==
    [type |-> "IndexError", force_asf |-> force_asf, dt |-> dt,
     mission |-> mission]

\* both calls made with force_asf=True
EofCall_AlwaysAsf(force_asf, dt, mission, kind) ==
    [force_asf |-> TRUE, dts |-> <<dt>>, missions |-> <<mission>>,
     result |-> IF kind \in {"list", "path"} THEN "ok" ELSE kind]

\* the record of one call of eof.download.download_eofs: its arguments
\* ([dt], [mission], force_asf) and how it ended
EofCall(force_asf, dt, mission, kind) ==
    [force_asf |-> force_asf, dts |-> <<dt>>, missions |-> <<mission>>,
     result |-> IF kind \in {"list", "path"} THEN "ok" ELSE kind]

\* the pairs of the for loop
Pairs == Zip(dts, missions)

\* a function without the count check
CountMismatch_Never(files, tokens) == FALSE

\* the count check after the loop
CountMismatch(files, tokens) == Len(files) /= Len(tokens)

MissingError == [type |-> "Exception"]

-----------------------------------------------------------------------------
(* Inputs *)

\* the identifier of the specification's parsing scenario
SlcIdA ==
    <<"S","1","A","_","I","W","_","S","L","C","_","_","1","S","D","V","_",
      "2","0","2","0","0","1","0","1","T","0","0","0","0","0","0","_","2",
      "0","2","0","0","1","0","1","T","0","0","0","0","3","0","_","0","3",
      "0","0","0","0","_","0","3","7","1","A","4","_","1","2","3","4">>

\* a second well-formed identifier, of the other mission
SlcIdB ==
    <<"S","1","B","_","I","W","_","S","L","C","_","_","1","S","D","V","_",
      "2","0","2","0","0","1","1","3","T","0","0","0","0","0","1","_","2",
      "0","2","0","0","1","1","3","T","0","0","0","0","3","1","_","0","1",
      "9","7","8","9","_","0","2","5","6","6","B","_","3","F","2","A">>

\* an identifier cut after its start time: five fields
SlcIdCut ==
    <<"S","1","A","_","I","W","_","S","L","C","_","_","1","S","D","V","_",
      "2","0","2","0","0","1","0","1","T","0","0","0","0","0","0">>

\* an identifier cut before its start time: four fields
SlcIdShort == <<"S","1","B","_","I","W","_","S","L","C","_","_","1","S","D","V">>

SlcIdPool == {SlcIdA, SlcIdB, SlcIdCut, SlcIdShort}

\* longest identifier list passed to get_orbits_from_slc_ids
MaxIds == 2

\* longest lists passed to download_eofs by a direct call
MaxDirect == 2

TokenA == <<"2","0","2","0","0","1","0","1","T","0","0","0","0","0","0">>
TokenB == <<"2","0","2","0","0","1","0","1","T","0","0","0","0","3","0">>
MissionA == <<"S","1","A">>

SeqsUpTo(S, n) == UNION {[1..k -> S] : k \in 0..n}

NoOutcome == [kind |-> "none", value |-> None]
Returned(v) == [kind |-> "return", value |-> v]
Raised(e) == [kind |-> "raise", value |-> e]

\* a complete entry of a ~/.netrc
Entry(login, password) == [login |-> login, account |-> "", password |-> password]

\* the ~/.netrc files a user may start with
InitialNetrcFiles ==
    {[exists |-> FALSE, mode |-> {}, text |-> <<>>],
     [exists |-> TRUE, mode |-> USER_MODE, text |-> <<>>],
     [exists |-> TRUE, mode |-> USER_MODE,
      text |-> [h \in {OTHER_HOST} |-> Entry("nasa", "moon")]],
     [exists |-> TRUE, mode |-> NETRC_MODE,
      text |-> [h \in {ESA_CDSE_HOST} |-> Entry("kept", "old")]],
     [exists |-> TRUE, mode |-> USER_MODE,
      text |-> [h \in {OTHER_HOST, ESA_CDSE_HOST} |->
                   IF h = OTHER_HOST THEN Entry("nasa", "moon")
                   ELSE Entry("kept", "old")]]}

Environments ==
    [ESA_USERNAME : {None, StrVal("user")}, ESA_PASSWORD : {None, StrVal("secret")}]

\* calcDelays at rest
DelaysAtRest ==
    /\ params = [date_list |-> <<>>, wetFilenames |-> <<>>, hydroFilenames |-> <<>>,
                 los |-> "zenith", aoi |-> [type |-> "bounding_box", bounds |-> <<0, 0, 0, 0>>],
                 raster_format |-> "nc", download_only |-> FALSE]
    /\ args = [download_only |-> FALSE]
    /\ dpc = "returned"
    /\ job = 1
    /\ delay_dct = <<>>
    /\ weather_model_file = None
    /\ wet_delay = None
    /\ hydro_delay = None
    /\ wm_calls = <<>>
    /\ delay_calls = <<>>
    /\ writer_calls = <<>>
    /\ job_state = <<>>
    /\ d_outcome = NoOutcome

InitOrbits ==
    /\ DelaysAtRest
    /\ netrc_file \in InitialNetrcFiles
    /\ environ \in Environments
    /\ pc = "idle"
    /\ caller = "none"
    /\ slc_ids = <<>>
    /\ dts = <<>>
    /\ missions = <<>>
    /\ idx = 1
    /\ orb_files = <<>>
    /\ outcome = NoOutcome
    /\ eof_calls = <<>>
    /\ ensure_ret = None
    /\ store_at_entry = netrc_file
    /\ store_writes = 0
    /\ ensured = FALSE

-----------------------------------------------------------------------------
(* Actions of s1_orbits.py *)

\* the locals of a call that has not reached download_eofs
NoDownload ==
    /\ dts' = <<>>
    /\ missions' = <<>>
    /\ idx' = 1
    /\ orb_files' = <<>>
    /\ eof_calls' = <<>>

\* the effect of the call of ensure_orbit_credentials on the store
RunEnsure(r) ==
    /\ store_at_entry' = netrc_file
    /\ netrc_file' = r.file
    /\ ensure_ret' = r.ret
    /\ store_writes' = r.writes
    /\ ensured' = (ensured \/ ~r.raised)

\* a call of ensure_orbit_credentials()
call_ensure_orbit_credentials ==
    /\ pc = "idle"
    /\ LET r == ensure_orbit_credentials(netrc_file, environ)
       IN  /\ RunEnsure(r)
           /\ outcome' = IF r.raised THEN Raised(ValueError) ELSE Returned(r.ret)
    /\ pc' = "done"
    /\ caller' = "ensure_orbit_credentials"
    /\ slc_ids' = <<>>
    /\ NoDownload
    /\ UNCHANGED environ
    /\ UNCHANGED delay_vars

\* get_orbits_from_slc_ids(slc_ids) up to and including
\* _ = ensure_orbit_credentials(); its ValueError is not caught
call_get_orbits_from_slc_ids ==
    /\ pc = "idle"
    /\ \E ids \in SeqsUpTo(SlcIdPool, MaxIds) : slc_ids' = ids
    /\ LET r == ensure_orbit_credentials(netrc_file, environ)
       IN  /\ RunEnsure(r)
           /\ outcome' = IF r.raised THEN Raised(ValueError) ELSE NoOutcome
           /\ pc' = IF r.raised THEN "done" ELSE "parse"
    /\ caller' = "get_orbits_from_slc_ids"
    /\ NoDownload
    /\ UNCHANGED environ
    /\ UNCHANGED delay_vars

\* the list comprehensions and the call of download_eofs
parse_slc_ids ==
    /\ pc = "parse"
    /\ LET p == ParseSlcIds(slc_ids)
       IN  IF p.raised
           THEN /\ outcome' = Raised(IndexError)
                /\ pc' = "done"
                /\ UNCHANGED <<dts, missions>>
           ELSE /\ dts' = DownloadArgs(p).dts
                /\ missions' = DownloadArgs(p).missions
                /\ pc' = "try"
                /\ UNCHANGED outcome
    /\ UNCHANGED <<netrc_file, environ, caller, slc_ids, idx, orb_files,
                   eof_calls, ensure_ret, store_at_entry, store_writes, ensured>>
    /\ UNCHANGED delay_vars

\* a direct call of download_eofs(dts, missions, save_dir)
call_download_eofs ==
    /\ pc = "idle"
    /\ \E d \in SeqsUpTo({TokenA, TokenB}, MaxDirect),
          m \in SeqsUpTo({MissionA}, MaxDirect) :
          /\ dts' = d
          /\ missions' = m
    /\ pc' = "try"
    /\ caller' = "download_eofs"
    /\ slc_ids' = <<>>
    /\ idx' = 1
    /\ orb_files' = <<>>
    /\ eof_calls' = <<>>
    /\ outcome' = NoOutcome
    /\ ensure_ret' = None
    /\ store_at_entry' = netrc_file
    /\ store_writes' = 0
    /\ UNCHANGED <<netrc_file, environ, ensured>>
    /\ UNCHANGED delay_vars

\* one pass of the try block: the call with force_asf=True, orb_file[0] and
\* the append; any exception enters the except block
try_asf ==
    /\ pc = "try"
    /\ idx <= Len(Pairs)
    /\ \E kind \in ProviderResults :
          LET dt == Pairs[idx][1]
              mission == Pairs[idx][2]
              rv == ProviderReturn(kind, dt, mission)
          IN  /\ eof_calls' = Append(eof_calls, EofCall(TRUE, dt, mission, kind))
              /\ IF Raises(kind) \/ FirstRaises(rv)
                 THEN /\ pc' = "except"
                      /\ UNCHANGED <<orb_files, idx>>
                 ELSE /\ orb_files' = Append(orb_files, FirstOf(rv))
                      /\ idx' = idx + 1
                      /\ pc' = "try"
    /\ UNCHANGED <<netrc_file, environ, caller, slc_ids, dts, missions, outcome,
                   ensure_ret, store_at_entry, store_writes, ensured>>
    /\ UNCHANGED delay_vars

\* the except block: the call with force_asf=False, orb_file[0] and the
\* append; an exception raised here leaves download_eofs
except_esa ==
    /\ pc = "except"
    /\ \E kind \in ProviderResults :
          LET dt == Pairs[idx][1]
              mission == Pairs[idx][2]
              rv == ProviderReturn(kind, dt, mission)
          IN  /\ eof_calls' = Append(eof_calls, EofCall(FALSE, dt, mission, kind))
              /\ IF Raises(kind)
                 THEN /\ outcome' = Raised(ProviderError(FALSE, dt, mission))
                      /\ pc' = "done"
                      /\ UNCHANGED <<orb_files, idx>>
                 ELSE IF FirstRaises(rv)
                 THEN /\ outcome' = Raised(EmptyError(FALSE, dt, mission))
                      /\ pc' = "done"
                      /\ UNCHANGED <<orb_files, idx>>
                 ELSE /\ orb_files' = Append(orb_files, FirstOf(rv))
                      /\ idx' = idx + 1
                      /\ pc' = "try"
                      /\ UNCHANGED outcome
    /\ UNCHANGED <<netrc_file, environ, caller, slc_ids, dts, missions,
                   ensure_ret, store_at_entry, store_writes, ensured>>
    /\ UNCHANGED delay_vars

\* after the loop: the count check, then return orb_files (which
\* get_orbits_from_slc_ids returns unchanged)
finish_download_eofs ==
    /\ pc = "try"
    /\ idx > Len(Pairs)
    /\ outcome' = IF CountMismatch(orb_files, dts) THEN Raised(MissingError)
                  ELSE Returned(ListVal(orb_files))
    /\ pc' = "done"
    /\ UNCHANGED <<netrc_file, environ, caller, slc_ids, dts, missions, idx,
                   orb_files, eof_calls, ensure_ret, store_at_entry,
                   store_writes, ensured>>
    /\ UNCHANGED delay_vars

\* the call is over: its locals are gone, the file and the environment stay
return_to_caller ==
    /\ pc = "done"
    /\ pc' = "idle"
    /\ caller' = "none"
    /\ slc_ids' = <<>>
    /\ NoDownload
    /\ outcome' = NoOutcome
    /\ ensure_ret' = None
    /\ store_at_entry' = netrc_file
    /\ store_writes' = 0
    /\ UNCHANGED <<netrc_file, environ, ensured>>
    /\ UNCHANGED delay_vars

NextOrbits ==
    \/ call_ensure_orbit_credentials
    \/ call_get_orbits_from_slc_ids
    \/ parse_slc_ids
    \/ call_download_eofs
    \/ try_asf
    \/ except_esa
    \/ finish_download_eofs
    \/ return_to_caller

SpecOrbits == InitOrbits /\ [][NextOrbits]_vars

-----------------------------------------------------------------------------
(* The parsing of get_orbits_from_slc_ids on its own *)

\* longest generated identifier
MaxIdLen == 11

\* every string of "1" and "_" up to MaxIdLen characters, and the pool
GeneratedIds == SeqsUpTo({"1", "_"}, MaxIdLen) \cup SlcIdPool

\* get_orbits_from_slc_ids([slc_id]) after ensure_orbit_credentials has
\* found the credentials in ~/.netrc
InitParse ==
    /\ DelaysAtRest
    /\ netrc_file = [exists |-> TRUE, mode |-> NETRC_MODE,
                     text |-> [h \in {ESA_CDSE_HOST} |-> Entry("kept", "old")]]
    /\ environ = [ESA_USERNAME |-> None, ESA_PASSWORD |-> None]
    /\ pc = "parse"
    /\ caller = "get_orbits_from_slc_ids"
    /\ \E id \in GeneratedIds : slc_ids = <<id>>
    /\ dts = <<>>
    /\ missions = <<>>
    /\ idx = 1
    /\ orb_files = <<>>
    /\ outcome = NoOutcome
    /\ eof_calls = <<>>
    /\ ensure_ret = None
    /\ store_at_entry = netrc_file
    /\ store_writes = 0
    /\ ensured = TRUE

NextParse == parse_slc_ids

SpecParse == InitParse /\ [][NextParse]_vars

-----------------------------------------------------------------------------
(* Python string methods used by calcDelays *)

\* s.startswith(x, i - 1): x occurs in s at position i
OccursAt(s, x, i) ==
    /\ i + Len(x) - 1 <= Len(s)
    /\ \A k \in 1..Len(x) : s[i + k - 1] = x[k]

\* s.replace(old, new) from position i on: the occurrences of old are
\* replaced left to right, without overlap
RECURSIVE ReplaceFrom(_, _, _, _)
ReplaceFrom(s, i, old, new) ==
    IF i > Len(s) THEN <<>>
    ELSE IF OccursAt(s, old, i) THEN new \o ReplaceFrom(s, i + Len(old), old, new)
    ELSE <<s[i]>> \o ReplaceFrom(s, i + 1, old, new)

\* s.replace(old, new), old not empty
Replace(s, old, new) == ReplaceFrom(s, 1, old, new)

\* s.endswith(x)
EndsWith(s, x) == Len(x) <= Len(s) /\ OccursAt(s, x, Len(s) - Len(x) + 1)

\* s.rfind(c) as a 1-based position, 0 when c is not in s
LastIndexOf(s, c) ==
    IF \E k \in 1..Len(s) : s[k] = c
    THEN CHOOSE k \in 1..Len(s) : s[k] = c /\ \A m \in (k + 1)..Len(s) : s[m] /= c
    ELSE 0

\* os.path.splitext(p): the extension starts at the last dot of the last
\* path component, unless that component has only dots before it
SplitExt(p) ==
    LET sep == LastIndexOf(p, "/")
        dot == LastIndexOf(p, ".")
    IN  IF dot > sep /\ \E k \in (sep + 1)..(dot - 1) : p[k] /= "."
        THEN <<SubSeq(p, 1, dot - 1), SubSeq(p, dot, Len(p))>>
        ELSE <<p, <<>>>>

-----------------------------------------------------------------------------
(* calcDelays: the collaborators it calls *)

\* the line-of-sight objects: Zenith, Conventional (projected), Raytracing
LosModes == {"zenith", "projected", "rayTraced"}

\* los.is_Projected()
is_Projected(los) == los = "projected"

\* los.ray_trace()
ray_trace(los) == los = "rayTraced"

\* aoi.bounds(): SNWE
bounds(aoi) == aoi.bounds

\* aoi.add_buffer(buffer): the bounds widened by buffer on every side
add_buffer(aoi, buffer) ==
    <<aoi.bounds[1] - buffer, aoi.bounds[2] + buffer,
      aoi.bounds[3] - buffer, aoi.bounds[4] + buffer>>

\* the bounds of the area as they are, for every line of sight
LLBounds_Unbuffered(los, aoi) == bounds(aoi)

\* the ll_bounds calcDelays passes to prepareWeatherModel
LLBounds(los, aoi) == IF ray_trace(los) THEN add_buffer(aoi, 1) ELSE bounds(aoi)

\* what prepareWeatherModel and tropo_delay can do; only RuntimeError is
\* caught by calcDelays
WeatherModelResults == {"ok", "RuntimeError", "OtherError"}
DelayResults == {"pair", "cube", "RuntimeError", "OtherError"}

\* a loop without the except clauses
Caught_Nothing(res) == FALSE

\* the exception classes the two except clauses catch
Caught(res) == res = "RuntimeError"

\* the exception an engine raised for the date t
EngineError(res, step, t) == [type |-> res, step |-> step, date |-> t]

-----------------------------------------------------------------------------
(* calcDelays: file names *)

DigitChars == <<"0", "1", "2", "3", "4", "5", "6", "7", "8", "9">>

\* t.strftime('%Y%m%d') of the dates 2020-01-01, 2020-01-02, ...
DateStr(t) == <<"2","0","2","0","0","1","0">> \o <<DigitChars[t + 1]>>

\* the names of the date t in params['wetFilenames'], params['hydroFilenames']
WetName(t, style) == DateStr(t) \o style.wet \o style.suffix \o style.ext
HydroName(t, style) == DateStr(t) \o style.hydro \o style.suffix \o style.ext

Style(wet, hydro, suffix, ext) ==
    [wet |-> wet, hydro |-> hydro, suffix |-> suffix, ext |-> ext]

S_ztd == <<"_","z","t","d">>
S_std == <<"_","s","t","d">>
S_ray == <<"_","r","a","y">>
S_wet == <<"w","e","t">>
S_tropo == <<"t","r","o","p","o">>
S_uwet == <<"_","w","e","t">>
S_uhydro == <<"_","h","y","d","r","o">>
Ext_nc == <<".","n","c">>
Ext_h5 == <<".","h","5">>
Ext_csv == <<".","c","s","v">>
Ext_tif == <<".","t","i","f">>

\* a rule that renames the wet file only
LosNames_WetOnly(los, w, f) ==
    IF los = "projected"
    THEN [out_filename |-> Replace(w, S_ztd, S_std), f |-> f]
    ELSE IF los = "rayTraced"
    THEN [out_filename |-> Replace(w, S_std, S_ray), f |-> f]
    ELSE [out_filename |-> w, f |-> f]

\* lines 234-241: the names after the line-of-sight rule
LosNames(los, w, f) ==
    IF is_Projected(los)
    THEN [out_filename |-> Replace(w, S_ztd, S_std), f |-> Replace(f, S_ztd, S_std)]
    ELSE IF ray_trace(los)
    THEN [out_filename |-> Replace(w, S_std, S_ray), f |-> Replace(f, S_std, S_ray)]
    ELSE [out_filename |-> w, f |-> f]

\* a cube name that keeps whatever extension the wet name has
CubeName_KeepsExt(out_filename) == Replace(out_filename, S_wet, S_tropo)

\* lines 246-250: the name of the cube
CubeName(out_filename) ==
    LET ext == SplitExt(out_filename)[2]
        forced == IF ext \notin {Ext_nc, Ext_h5}
                  THEN SplitExt(out_filename)[1] \o Ext_nc
                  ELSE out_filename
    IN  Replace(forced, S_wet, S_tropo)

\* lines 252-255: the writer of the cube
CubeWrites(ds, out_filename) ==
    IF EndsWith(out_filename, Ext_nc)
    THEN <<[writer |-> "to_netcdf", ds |-> ds, file |-> out_filename,
            engine |-> "netcdf4"]>>
    ELSE IF EndsWith(out_filename, Ext_h5)
    THEN <<[writer |-> "to_netcdf", ds |-> ds, file |-> out_filename,
            engine |-> "h5netcdf"]>>
    ELSE <<>>

\* lines 259-260: the wet name of a station file
StationName(aoi_type, out_filename) ==
    IF aoi_type = "station_file" THEN SplitExt(out_filename)[1] \o Ext_csv
    ELSE out_filename

\* the configured format handed on as it is
RasterFormat_AsConfigured(raster_format) == raster_format

\* line 263
RasterFormat(raster_format) == IF raster_format /= "nc" THEN raster_format ELSE "GTiff"

\* lines 262-264: the call of writeDelays
TableWrites(aoi_type, wet, hydro, out_filename, f, raster_format) ==
    IF aoi_type \in {"station_file", "radar_rasters", "geocoded_file"}
    THEN <<[writer |-> "writeDelays", wet |-> wet, hydro |-> hydro,
            file |-> out_filename, hydro_file |-> f,
            outformat |-> RasterFormat(raster_format)]>>
    ELSE <<>>

\* lines 234-271 for one job: the final names and the writer calls
Route(los, aoi_type, raster_format, wet, hydro, w, f) ==
    LET n == LosNames(los, w, f)
    IN  IF hydro = None
        THEN LET name == CubeName(n.out_filename)
             IN  [out_filename |-> name, f |-> n.f, writes |-> CubeWrites(wet, name)]
        ELSE LET name == StationName(aoi_type, n.out_filename)
             IN  [out_filename |-> name, f |-> n.f,
                  writes |-> TableWrites(aoi_type, wet, hydro, name, n.f, raster_format)]

\* delay_dct = {t: (out_filename, f)}: the mapping rebuilt for every job
SetItem_Rebuilt(dct, t, v) == [d \in {t} |-> v]

\* a mapping that keeps the entry a date already has
SetItem_KeepFirst(dct, t, v) ==
    [d \in DOMAIN dct \cup {t} |-> IF d \in DOMAIN dct THEN dct[d] ELSE v]

\* delay_dct[t] = out_filename, f
SetItem(dct, t, v) == [d \in DOMAIN dct \cup {t} |-> IF d = t THEN v ELSE dct[d]]

\* pass in the place of continue: the body goes on with the same job
Continue_FallsThrough(j) == [job |-> j, dpc |-> "delay"]

\* lines 211, 215, 228: continue takes the loop to the next job
Continue(j) == [job |-> j + 1, dpc |-> "wm"]

\* the flag of the parameter structure alone
dl_only_ParamsOnly == params.download_only

\* line 174
dl_only == params.download_only \/ args.download_only

\* a loop that walks the three lists from their last elements
Jobs_Reversed ==
    LET n == Min(Len(params.date_list),
                 Min(Len(params.wetFilenames), Len(params.hydroFilenames)))
    IN  [k \in 1..n |-> <<params.date_list[n + 1 - k], params.wetFilenames[n + 1 - k],
                           params.hydroFilenames[n + 1 - k]>>]

\* the jobs of the for loop
Jobs == [k \in 1..Min(Len(params.date_list),
                      Min(Len(params.wetFilenames), Len(params.hydroFilenames))) |->
            <<params.date_list[k], params.wetFilenames[k], params.hydroFilenames[k]>>]

-----------------------------------------------------------------------------
(* calcDelays: inputs *)

\* the processing dates, as days of January 2020
Dates == {1, 2, 3}

\* longest date list of a run
MaxJobs == 3

AoiBounds == <<10, 12, 20, 22>>

Aoi(type) == [type |-> type, bounds |-> AoiBounds]

MakeParams(dates, style, los, aoi_type, raster_format, download_only) ==
    [date_list      |-> dates,
     wetFilenames   |-> [k \in 1..Len(dates) |-> WetName(dates[k], style)],
     hydroFilenames |-> [k \in 1..Len(dates) |-> HydroName(dates[k], style)],
     los            |-> los,
     aoi            |-> Aoi(aoi_type),
     raster_format  |-> raster_format,
     download_only  |-> download_only]

\* the runs of the batch: every date list, line of sight and download-only
\* setting, with one naming style
BatchRuns ==
    {MakeParams(dates, Style(S_uwet, S_uhydro, S_ztd, Ext_h5), los, aoi_type, "nc",
                download_only) :
        dates \in SeqsUpTo(Dates, MaxJobs), los \in LosModes,
        aoi_type \in {"station_file", "bounding_box"},
        download_only \in BOOLEAN}

\* the state of calcDelays when the loop starts
StartDelays(p, a) ==
    /\ params = p
    /\ args = a
    /\ dpc = "wm"
    /\ job = 1
    /\ delay_dct = <<>>
    /\ weather_model_file = None
    /\ wet_delay = None
    /\ hydro_delay = None
    /\ wm_calls = <<>>
    /\ delay_calls = <<>>
    /\ writer_calls = <<>>
    /\ job_state = [k \in 1..Len(p.date_list) |-> "Pending"]
    /\ d_outcome = NoOutcome

\* s1_orbits.py at rest
OrbitsAtRest ==
    /\ netrc_file = [exists |-> FALSE, mode |-> {}, text |-> <<>>]
    /\ environ = [ESA_USERNAME |-> None, ESA_PASSWORD |-> None]
    /\ pc = "idle"
    /\ caller = "none"
    /\ slc_ids = <<>>
    /\ dts = <<>>
    /\ missions = <<>>
    /\ idx = 1
    /\ orb_files = <<>>
    /\ outcome = NoOutcome
    /\ eof_calls = <<>>
    /\ ensure_ret = None
    /\ store_at_entry = netrc_file
    /\ store_writes = 0
    /\ ensured = FALSE

InitDelays ==
    /\ OrbitsAtRest
    /\ \E p \in BatchRuns, a \in [download_only : BOOLEAN] :
          /\ ~(p.download_only /\ a.download_only)
          /\ StartDelays(p, a)

-----------------------------------------------------------------------------
(* calcDelays: the loop *)

\* lines 186-215: the bounds, the call of prepareWeatherModel, the except
\* clause and the download-only continue
prepare_weather_model ==
    /\ dpc = "wm"
    /\ job <= Len(Jobs)
    /\ \E res \in WeatherModelResults :
          LET t == Jobs[job][1]
          IN  /\ wm_calls' = Append(wm_calls,
                     [date |-> t, ll_bounds |-> LLBounds(params.los, params.aoi),
                      download_only |-> dl_only])
              /\ IF res = "ok"
                 THEN /\ job_state' = [job_state EXCEPT ![job] = "WeatherModelReady"]
                      /\ d_outcome' = d_outcome
                      /\ IF dl_only
                         THEN /\ job' = Continue(job).job
                              /\ dpc' = Continue(job).dpc
                              /\ weather_model_file' = None
                         ELSE /\ job' = job
                              /\ dpc' = "delay"
                              /\ weather_model_file' = [weather_model |-> t]
                 ELSE IF Caught(res)
                 THEN /\ job_state' = [job_state EXCEPT ![job] = "FailedWeatherModel"]
                      /\ job' = Continue(job).job
                      /\ dpc' = Continue(job).dpc
                      /\ weather_model_file' = None
                      /\ d_outcome' = d_outcome
                 ELSE /\ d_outcome' = Raised(EngineError(res, "prepareWeatherModel", t))
                      /\ dpc' = "raised"
                      /\ UNCHANGED <<job, job_state, weather_model_file>>
    /\ UNCHANGED <<params, args, delay_dct, wet_delay, hydro_delay, delay_calls,
                   writer_calls>>
    /\ UNCHANGED orbit_vars

\* lines 217-228: the call of tropo_delay and its except clause
compute_delays ==
    /\ dpc = "delay"
    /\ \E res \in DelayResults :
          LET t == Jobs[job][1]
          IN  /\ delay_calls' = Append(delay_calls,
                     [date |-> t, weather_model_file |-> weather_model_file])
              /\ IF res \in {"pair", "cube"}
                 THEN /\ wet_delay' = [wet |-> t, cube |-> res = "cube"]
                      /\ hydro_delay' = IF res = "cube" THEN None ELSE [hydro |-> t]
                      /\ job_state' = [job_state EXCEPT ![job] = "DelayComputed"]
                      /\ dpc' = "write"
                      /\ UNCHANGED <<job, weather_model_file, d_outcome>>
                 ELSE IF Caught(res)
                 THEN /\ job_state' = [job_state EXCEPT ![job] = "FailedDelay"]
                      /\ job' = Continue(job).job
                      /\ dpc' = Continue(job).dpc
                      /\ weather_model_file' = None
                      /\ UNCHANGED <<wet_delay, hydro_delay, d_outcome>>
                 ELSE /\ d_outcome' = Raised(EngineError(res, "tropo_delay", t))
                      /\ dpc' = "raised"
                      /\ UNCHANGED <<job, job_state, weather_model_file, wet_delay,
                                     hydro_delay>>
    /\ UNCHANGED <<params, args, delay_dct, wm_calls, writer_calls>>
    /\ UNCHANGED orbit_vars

\* lines 234-271: the names, the writers and the entry of delay_dct
write_delays ==
    /\ dpc = "write"
    /\ LET t == Jobs[job][1]
           r == Route(params.los, params.aoi.type, params.raster_format, wet_delay,
                      hydro_delay, Jobs[job][2], Jobs[job][3])
       IN  /\ writer_calls' = writer_calls \o r.writes
           /\ delay_dct' = SetItem(delay_dct, t, <<r.out_filename, r.f>>)
    /\ job_state' = [job_state EXCEPT ![job] = "Routed"]
    /\ job' = job + 1
    /\ dpc' = "wm"
    /\ weather_model_file' = None
    /\ wet_delay' = None
    /\ hydro_delay' = None
    /\ UNCHANGED <<params, args, wm_calls, delay_calls, d_outcome>>
    /\ UNCHANGED orbit_vars

\* line 273: return delay_dct
return_delay_dct ==
    /\ dpc = "wm"
    /\ job > Len(Jobs)
    /\ dpc' = "returned"
    /\ d_outcome' = Returned(DictVal(delay_dct))
    /\ UNCHANGED <<params, args, job, delay_dct, weather_model_file, wet_delay,
                   hydro_delay, wm_calls, delay_calls, writer_calls, job_state>>
    /\ UNCHANGED orbit_vars

NextDelays ==
    \/ prepare_weather_model
    \/ compute_delays
    \/ write_delays
    \/ return_delay_dct

SpecDelays == InitDelays /\ [][NextDelays]_vars

-----------------------------------------------------------------------------
(* calcDelays on one date, with every kind of output name, area of         *)
(* interest and raster format                                              *)

\* longest date list of a run of the router
MaxRouterJobs == 1

\* the name styles: with or without the wet / hydro token, with each of the
\* line-of-sight suffixes, with two of them, or with none, and with the
\* extensions of the cube, of a raster, of a table, or with none
RouterStyles ==
    {Style(tok[1], tok[2], suffix, ext) :
        tok \in {<<S_uwet, S_uhydro>>, <<<<>>, <<>>>>},
        suffix \in {S_ztd, S_std, S_ray, S_ztd \o S_std, <<>>},
        ext \in {Ext_nc, Ext_h5, Ext_tif, Ext_csv, <<>>}}

\* the values of aoi.type()
AoiTypes == {"station_file", "radar_rasters", "geocoded_file", "bounding_box", "Geocube"}

\* the values of params['raster_format']
RasterFormats == {"nc", "GTiff", "ENVI"}

RouterRuns ==
    {MakeParams(dates, style, los, aoi_type, raster_format, FALSE) :
        dates \in SeqsUpTo({1}, MaxRouterJobs), style \in RouterStyles,
        los \in LosModes, aoi_type \in AoiTypes, raster_format \in RasterFormats}

InitRouter ==
    /\ OrbitsAtRest
    /\ \E p \in RouterRuns : StartDelays(p, [download_only |-> FALSE])

SpecRouter == InitRouter /\ [][NextDelays]_vars

-----------------------------------------------------------------------------
(* Claims about calcDelays, checked under SpecDelays *)

FailedStates == {"FailedWeatherModel", "FailedDelay"}

DistinctDates ==
    \A a, b \in 1..Len(params.date_list) :
        params.date_list[a] = params.date_list[b] => a = b

\* calcDelays returned from a run that computes delays, the dates are
\* distinct, job k failed with a RuntimeError and every other job was routed
OnlyJobFailed(k) ==
    /\ dpc = "returned"
    /\ ~dl_only
    /\ DistinctDates
    /\ k \in 1..Len(job_state)
    /\ job_state[k] \in FailedStates
    /\ \A j \in 1..Len(job_state) : j /= k => job_state[j] = "Routed"

\* C1 as stated: when job k alone fails with a RuntimeError (in the weather
\* model step or in the delay step), the returned mapping has one entry per
\* input job, the failed job k included.
C1_OneEntryPerJob ==
    \A k \in 1..Len(job_state) :
        OnlyJobFailed(k) =>
            /\ Cardinality(DOMAIN d_outcome.value.items) = Len(Jobs)
            /\ Jobs[k][1] \in DOMAIN d_outcome.value.items

\* C1 amended: when job k alone fails with a RuntimeError (in the weather
\* model step or in the delay step) in a run that is not download-only,
\* calcDelays returns a mapping with exactly N - 1 entries: the pair of final
\* output names of every job before and after k, under that job's date, and
\* no entry for the date of job k.
C1_BatchIsolation ==
    \A k \in 1..Len(job_state) :
        OnlyJobFailed(k) =>
            LET dct == d_outcome.value.items
            IN  /\ d_outcome.kind = "return"
                /\ Cardinality(DOMAIN dct) = Len(Jobs) - 1
                /\ Jobs[k][1] \notin DOMAIN dct
                /\ \A j \in 1..Len(Jobs) :
                      j /= k =>
                          /\ Jobs[j][1] \in DOMAIN dct
                          /\ Len(dct[Jobs[j][1]]) = 2
                          /\ Prefix(dct[Jobs[j][1]][1], 8) = DateStr(Jobs[j][1])
                          /\ Prefix(dct[Jobs[j][1]][2], 8) = DateStr(Jobs[j][1])

\* three jobs, the middle one failed in the weather model step, and the
\* mapping returned holds the other two
C1_Witness ==
    /\ OnlyJobFailed(2)
    /\ job_state = <<"Routed", "FailedWeatherModel", "Routed">>
    /\ Cardinality(DOMAIN d_outcome.value.items) = 2

\* C2: a RuntimeError of prepareWeatherModel or of tropo_delay never leaves
\* calcDelays, the loop goes on past the job that raised it, calling
\* prepareWeatherModel job by job in the order of the list, and when
\* calcDelays returns prepareWeatherModel has been called for every job after
\* the failed one.
C2_BatchNeverAborts ==
    /\ dpc = "raised" => d_outcome.value.type /= "RuntimeError"
    /\ \A k \in 1..Len(job_state) :
          job_state[k] \in FailedStates =>
              /\ job > k
              /\ Len(wm_calls) \in {job - 1, job}
              /\ \A j \in 1..Len(wm_calls) : wm_calls[j].date = Jobs[j][1]
              /\ dpc = "returned" =>
                    /\ Len(wm_calls) = Len(Jobs)
                    /\ \A j \in (k + 1)..Len(Jobs) : wm_calls[j].date = Jobs[j][1]

\* a run whose first job failed in the weather model step and whose second
\* job failed in the delay step, and which went on to a third job and returned
C2_Witness ==
    /\ dpc = "returned"
    /\ Len(job_state) = 3
    /\ job_state[1] = "FailedWeatherModel"
    /\ job_state[2] = "FailedDelay"
    /\ Len(wm_calls) = 3
    /\ Len(delay_calls) = 2

-----------------------------------------------------------------------------
(* Claims about download_eofs and get_orbits_from_slc_ids, checked under   *)
(* SpecOrbits                                                              *)

InGetOrbits == caller = "get_orbits_from_slc_ids"
InDownload == caller \in {"get_orbits_from_slc_ids", "download_eofs"}

\* the pair the n-th call of a provider belongs to: the number of calls
\* with force_asf=True up to and including it
PairOfCall(n) == Cardinality({m \in 1..n : eof_calls[m].force_asf})

\* an attempt failed: the provider raised, or orb_file[0] raised IndexError
\* on the empty list it returned
AttemptFailed(c) == c.result /= "ok"

\* C3: for every (time token, mission) pair the primary provider
\* (force_asf=True) is attempted first and exactly once, in the order of the
\* pairs; the secondary provider (force_asf=False) is called if and only if
\* that attempt raised an error (the provider raised, or taking the first
\* element of what it returned raised), then exactly once and with the same
\* pair; after a primary attempt that succeeded the next call is the primary
\* attempt of the next pair, so a pair already served is never requested again.
C3_FallbackPerPair ==
    InDownload =>
        /\ \A n \in 1..Len(eof_calls) :
              LET c == eof_calls[n]
                  k == PairOfCall(n)
              IN  /\ k \in 1..Min(Len(dts), Len(missions))
                  /\ c.dts = <<dts[k]>>
                  /\ c.missions = <<missions[k]>>
                  /\ ~c.force_asf =>
                        /\ n > 1
                        /\ eof_calls[n - 1].force_asf
                        /\ AttemptFailed(eof_calls[n - 1])
                  /\ (c.force_asf /\ AttemptFailed(c)) =>
                        IF n < Len(eof_calls) THEN ~eof_calls[n + 1].force_asf
                        ELSE pc = "except"
                  /\ (c.force_asf /\ ~AttemptFailed(c) /\ n < Len(eof_calls)) =>
                        eof_calls[n + 1].force_asf
        /\ outcome.kind = "return" =>
              PairOfCall(Len(eof_calls)) = Min(Len(dts), Len(missions))

\* a call that returned after the primary provider served the first pair and
\* failed for the second, which the secondary provider then served
C3_Witness ==
    /\ InGetOrbits
    /\ outcome.kind = "return"
    /\ Len(eof_calls) = 3
    /\ eof_calls[1].force_asf /\ eof_calls[1].result = "ok"
    /\ eof_calls[2].force_asf /\ eof_calls[2].result = "raise"
    /\ ~eof_calls[3].force_asf /\ eof_calls[3].result = "ok"
    /\ eof_calls[3].dts = eof_calls[2].dts

\* the mission and the two time tokens written in the identifiers of the pool
Written(id) ==
    IF id = SlcIdA
    THEN [mission |-> <<"S", "1", "A">>,
          start |-> <<"2","0","2","0","0","1","0","1","T","0","0","0","0","0","0">>,
          stop  |-> <<"2","0","2","0","0","1","0","1","T","0","0","0","0","3","0">>]
    ELSE [mission |-> <<"S", "1", "B">>,
          start |-> <<"2","0","2","0","0","1","1","3","T","0","0","0","0","0","1">>,
          stop  |-> <<"2","0","2","0","0","1","1","3","T","0","0","0","0","3","1">>]

WellFormedIds == {SlcIdA, SlcIdB}

\* C4: get_orbits_from_slc_ids on N well-formed identifiers either raises or
\* returns exactly 2N files, file i that of (start token, mission) of
\* identifier i and file N + i that of (stop token, mission) of identifier i.
C4_Completeness ==
    (InGetOrbits /\ pc = "done" /\ \A k \in 1..Len(slc_ids) : slc_ids[k] \in WellFormedIds) =>
        \/ outcome.kind = "raise"
        \/ /\ outcome.kind = "return"
           /\ outcome.value.type = "list"
           /\ Len(outcome.value.items) = 2 * Len(slc_ids)
           /\ \A i \in 1..Len(slc_ids) :
                 /\ outcome.value.items[i] =
                        [dt |-> Written(slc_ids[i]).start,
                         mission |-> Written(slc_ids[i]).mission]
                 /\ outcome.value.items[Len(slc_ids) + i] =
                        [dt |-> Written(slc_ids[i]).stop,
                         mission |-> Written(slc_ids[i]).mission]

\* two different identifiers resolved to four files, one of them by the
\* secondary provider
C4_Witness ==
    /\ InGetOrbits
    /\ pc = "done"
    /\ slc_ids = <<SlcIdA, SlcIdB>>
    /\ outcome.kind = "return"
    /\ Len(outcome.value.items) = 4
    /\ \E n \in 1..Len(eof_calls) : ~eof_calls[n].force_asf

\* C5: when the secondary provider raises for a pair, that call is the last
\* call made to any provider, the call of download_eofs (and of
\* get_orbits_from_slc_ids) is over and ended with that very error, and no
\* list of files is returned.
C5_SecondaryFailurePropagates ==
    InDownload =>
        \A n \in 1..Len(eof_calls) :
            (~eof_calls[n].force_asf /\ eof_calls[n].result = "raise") =>
                /\ n = Len(eof_calls)
                /\ pc = "done"
                /\ outcome.kind = "raise"
                /\ outcome.value =
                       ProviderError(FALSE, eof_calls[n].dts[1], eof_calls[n].missions[1])

\* the secondary provider raised for the second of four pairs
C5_Witness ==
    /\ InGetOrbits
    /\ Len(dts) = 4
    /\ Len(eof_calls) = 3
    /\ ~eof_calls[3].force_asf
    /\ eof_calls[3].result = "raise"
    /\ outcome.kind = "raise"
    /\ Len(orb_files) = 1

\* a field of the stored record holds a credential: it is neither empty nor
\* the text that formatting None leaves
Populated(field) == field \notin {"", "None"}

\* a provider has been called, or the loop is about to call one
Downloading ==
    \/ eof_calls /= <<>>
    \/ pc = "except"
    \/ pc = "try" /\ idx <= Len(Pairs)

\* C6 as stated: whenever get_orbits_from_slc_ids attempts a download, the
\* store holds a record for ESA_CDSE_HOST whose login and password are both
\* populated.
C6_CredentialsPopulated ==
    (InGetOrbits /\ Downloading) =>
        /\ ESA_CDSE_HOST \in DOMAIN netrc_file.text
        /\ Populated(netrc_file.text[ESA_CDSE_HOST].login)
        /\ Populated(netrc_file.text[ESA_CDSE_HOST].password)

\* the store held the record when ensure_orbit_credentials was entered
HadRecord == ESA_CDSE_HOST \in DOMAIN store_at_entry.text

Ensuring == caller \in {"ensure_orbit_credentials", "get_orbits_from_slc_ids"}

C7_NoOp ==
    (Ensuring /\ HadRecord) =>
        /\ ensure_ret = None
        /\ netrc_file = store_at_entry
        /\ store_writes = 0
        /\ outcome /= Raised(ValueError)

\* C7: a call of ensure_orbit_credentials that finds a record for the host
\* returns None and leaves the file as it was, whatever the environment holds;
\* and once a call of ensure_orbit_credentials has returned, no later step
\* changes the file.
C7_Idempotent == [](C7_NoOp) /\ [][ensured => netrc_file' = netrc_file]_vars

\* a second call: it found the record that an earlier call had inserted from
\* the environment, and returned None
C7_Witness ==
    /\ caller = "ensure_orbit_credentials"
    /\ ensured
    /\ HadRecord
    /\ store_at_entry.text[ESA_CDSE_HOST].login = "user"
    /\ environ.ESA_USERNAME /= None
    /\ outcome = Returned(None)
    /\ netrc_file = store_at_entry

NoEnvironment == environ.ESA_USERNAME = None /\ environ.ESA_PASSWORD = None

\* C8: with no record for the host and neither environment input set,
\* ensure_orbit_credentials raises ValueError and writes nothing: the file
\* holds the records it held; get_orbits_from_slc_ids ends with that error,
\* has parsed no identifier into a download and has called no provider.
C8_MissingCredentials ==
    (Ensuring /\ ~HadRecord /\ NoEnvironment) =>
        /\ pc = "done"
        /\ outcome = Raised(ValueError)
        /\ netrc_file.text = store_at_entry.text
        /\ ESA_CDSE_HOST \notin DOMAIN netrc_file.text
        /\ store_writes = 0
        /\ dts = <<>>
        /\ missions = <<>>
        /\ eof_calls = <<>>
        /\ orb_files = <<>>

\* get_orbits_from_slc_ids on two identifiers, no ~/.netrc and no
\* environment input: the file was created empty and the call raised
C8_Witness ==
    /\ InGetOrbits
    /\ Len(slc_ids) = 2
    /\ ~store_at_entry.exists
    /\ netrc_file.exists
    /\ NoEnvironment
    /\ outcome = Raised(ValueError)

\* the positions of s at which a run of "_" starts
RunStarts(s) == {i \in 1..Len(s) : s[i] = "_" /\ (i = 1 \/ s[i - 1] /= "_")}

\* the number of fields between the runs of "_" of s
FieldCount(s) == Cardinality(RunStarts(s)) + 1

Malformed(id) == FieldCount(id) < 6

\* C9: when an identifier of the list has fewer than six fields, the call of
\* get_orbits_from_slc_ids calls no provider at any time and returns no
\* list; it ends with an error, which is IndexError unless the credentials
\* were missing.
C9_MalformedIsFatal ==
    (InGetOrbits /\ \E k \in 1..Len(slc_ids) : Malformed(slc_ids[k])) =>
        /\ eof_calls = <<>>
        /\ orb_files = <<>>
        /\ outcome.kind /= "return"
        /\ pc \in {"parse", "done"}
        /\ pc = "done" => outcome \in {Raised(ValueError), Raised(IndexError)}
        /\ (pc = "done" /\ (HadRecord \/ ~NoEnvironment)) => outcome = Raised(IndexError)

\* a well-formed identifier followed by one without a stop time: IndexError
\* after the credentials were written
C9_Witness ==
    /\ InGetOrbits
    /\ slc_ids = <<SlcIdA, SlcIdCut>>
    /\ store_writes = 1
    /\ outcome = Raised(IndexError)
    /\ eof_calls = <<>>

-----------------------------------------------------------------------------
(* Claim about the parsing, checked under SpecParse *)

\* tok is the k-th field of s: it lies between positions a and b, holds no
\* "_", is bounded by "_" or by the ends of s, and k - 1 runs of "_" start
\* before it; an empty field exists only before a leading and after a
\* trailing run
IsField(s, k, tok) ==
    \E a \in 1..(Len(s) + 1) :
        \E b \in (a - 1)..Len(s) :
            /\ tok = SubSeq(s, a, b)
            /\ \A i \in a..b : s[i] /= "_"
            /\ a = 1 \/ s[a - 1] = "_"
            /\ b = Len(s) \/ s[b + 1] = "_"
            /\ b = a - 1 => (a = 1 \/ a = Len(s) + 1)
            /\ Cardinality({r \in RunStarts(s) : r < a}) = k - 1

\* the first three characters of s
FirstThree(s) == [i \in 1..(IF Len(s) < 3 THEN Len(s) ELSE 3) |-> s[i]]

\* C10: for an identifier with at least six fields between runs of "_",
\* get_orbits_from_slc_ids takes its first three characters as the mission
\* of both tasks, its 5th field as the start token and its 6th field as the
\* stop token (an identifier with fewer fields ends the call with IndexError);
\* the identifier S1A_IW_SLC__1SDV_20200101T000000_20200101T000030_... gives
\* S1A, 20200101T000000 and 20200101T000030.
C10_IdentifierParsing ==
    (InGetOrbits /\ Len(slc_ids) = 1 /\ pc /= "parse") =>
        LET id == slc_ids[1]
        IN  /\ IF Malformed(id)
               THEN pc = "done" /\ outcome = Raised(IndexError)
               ELSE /\ pc = "try"
                    /\ missions = <<FirstThree(id), FirstThree(id)>>
                    /\ Len(dts) = 2
                    /\ IsField(id, 5, dts[1])
                    /\ IsField(id, 6, dts[2])
            /\ id = SlcIdA =>
                  /\ missions = <<MissionA, MissionA>>
                  /\ dts = <<TokenA, TokenB>>

\* the identifier of the scenario has been parsed
C10_Witness ==
    /\ InGetOrbits
    /\ slc_ids = <<SlcIdA>>
    /\ pc = "try"
    /\ dts = <<TokenA, TokenB>>
    /\ missions = <<MissionA, MissionA>>

-----------------------------------------------------------------------------
(* Claims about the order of the jobs, checked under SpecDelays *)

\* the jobs whose state is in S, in the order of the list, from job k on
RECURSIVE JobsIn(_, _)
JobsIn(S, k) ==
    IF k > Len(job_state) THEN <<>>
    ELSE (IF job_state[k] \in S THEN <<k>> ELSE <<>>) \o JobsIn(S, k + 1)

\* the jobs for which tropo_delay has been called: those that got past it or
\* were failed by it, and the job whose call ended calcDelays with an error
\* that is not a RuntimeError
DelayCalledJobs ==
    JobsIn({"DelayComputed", "Routed", "FailedDelay"}, 1)
    \o (IF dpc = "raised" /\ d_outcome.value.step = "tropo_delay" THEN <<job>> ELSE <<>>)

\* the loop is at job and has called prepareWeatherModel for it or not yet
JobOrder ==
    /\ Len(Jobs) = Len(params.date_list)
    /\ job \in 1..(Len(params.date_list) + 1)
    /\ Len(wm_calls) = (IF dpc = "wm" \/ dpc = "returned" THEN job - 1 ELSE job)
    /\ \A j \in 1..Len(wm_calls) : wm_calls[j].date = params.date_list[j]
    /\ Len(delay_calls) = Len(DelayCalledJobs)
    /\ \A i \in 1..Len(delay_calls) :
          delay_calls[i].date = params.date_list[DelayCalledJobs[i]]
    /\ Len(writer_calls) <= Len(JobsIn({"Routed"}, 1))
    /\ \A k \in 1..Len(job_state) :
          /\ k < job => job_state[k] /= "Pending"
          /\ k > job => job_state[k] = "Pending"

\* a step of the loop stays at its job or moves to the next one, and makes at
\* most one call of each engine
JobStep ==
    /\ job' \in {job, job + 1}
    /\ Len(wm_calls') \in {Len(wm_calls), Len(wm_calls) + 1}
    /\ Len(delay_calls') \in {Len(delay_calls), Len(delay_calls) + 1}
    /\ \A j \in 1..Len(wm_calls) : wm_calls'[j] = wm_calls[j]
    /\ \A j \in 1..Len(delay_calls) : delay_calls'[j] = delay_calls[j]

\* C11: calcDelays has one job per date of the date list and works through
\* them in the order of the list: the j-th call of prepareWeatherModel is for
\* the j-th date, tropo_delay is called once for each job that reached it, in
\* the same order, at most one writer call is made per routed job, the jobs
\* behind the loop position are all consumed and those ahead untouched, and
\* the position never goes back, so that no job is taken up a second time.
C11_JobOrderAndSingleConsumption == [](JobOrder) /\ [][JobStep]_vars

\* three jobs given in the order of the dates 3, 1, 2 were all routed, and
\* both engines were called for them in that order
C11_Witness ==
    /\ dpc = "returned"
    /\ params.date_list = <<3, 1, 2>>
    /\ job_state = <<"Routed", "Routed", "Routed">>
    /\ [j \in 1..3 |-> wm_calls[j].date] = <<3, 1, 2>>
    /\ Len(delay_calls) = 3
    /\ [j \in 1..3 |-> delay_calls[j].date] = <<3, 1, 2>>

-----------------------------------------------------------------------------
(* Claims about the output names and the writers, checked under SpecRouter *)

\* s with every occurrence of old overwritten by new, position by position
\* (old and new of the same length, old unable to overlap itself)
Overwritten(s, old, new) ==
    [i \in 1..Len(s) |->
        IF \E j \in 1..i : i < j + Len(old) /\ OccursAt(s, old, j)
        THEN new[i + 1 - (CHOOSE j \in 1..i : i < j + Len(old) /\ OccursAt(s, old, j))]
        ELSE s[i]]

\* the name the line of sight asks for
AfterLos(los, s) ==
    IF los = "projected" THEN Overwritten(s, S_ztd, S_std)
    ELSE IF los = "rayTraced" THEN Overwritten(s, S_std, S_ray)
    ELSE s

\* the loop is about to derive the names of its job and to write
Writing == dpc = "write"

Name_ztd_h5 == <<"2","0","2","0","0","1","0","1","_","z","t","d",".","h","5">>
Name_std_h5 == <<"2","0","2","0","0","1","0","1","_","s","t","d",".","h","5">>
Name_std_nc == <<"2","0","2","0","0","1","0","1","_","s","t","d",".","n","c">>
Name_ray_nc == <<"2","0","2","0","0","1","0","1","_","r","a","y",".","n","c">>

\* the step that derives the names of a job: the hydrostatic name recorded
\* and handed to writeDelays is the configured one after the line-of-sight
\* rule, and so is the wet name where no later rule changes it (a separate
\* hydrostatic result, an area that is not a station file)
LosRuleStep ==
    Writing =>
        LET t == params.date_list[job]
            w == params.wetFilenames[job]
            f == params.hydroFilenames[job]
            e == delay_dct'[t]
            new == SubSeq(writer_calls', Len(writer_calls) + 1, Len(writer_calls'))
        IN  /\ e[2] = AfterLos(params.los, f)
            /\ (hydro_delay /= None /\ params.aoi.type /= "station_file") =>
                   e[1] = AfterLos(params.los, w)
            /\ \A i \in 1..Len(new) :
                   /\ new[i].file = e[1]
                   /\ new[i].writer = "writeDelays" =>
                          new[i].hydro_file = AfterLos(params.los, f)
            /\ (params.los = "zenith" /\ hydro_delay /= None
                    /\ params.aoi.type /= "station_file") => e = <<w, f>>
            /\ (params.los = "projected" /\ w = Name_ztd_h5 /\ f = Name_ztd_h5
                    /\ hydro_delay /= None /\ params.aoi.type /= "station_file") =>
                   e = <<Name_std_h5, Name_std_h5>>
            /\ (params.los = "rayTraced" /\ w = Name_std_nc /\ f = Name_std_nc
                    /\ hydro_delay /= None /\ params.aoi.type /= "station_file") =>
                   e = <<Name_ray_nc, Name_ray_nc>>

\* C12: when calcDelays derives the output names of a job, before it calls a
\* writer, a projected line of sight turns every "_ztd" of the wet and of the
\* hydrostatic name into "_std", else a ray-traced one turns every "_std" of
\* both into "_ray", else both names stay as configured; projected with
\* "20200101_ztd.h5" gives "20200101_std.h5" for both, ray-traced with
\* "20200101_std.nc" gives "20200101_ray.nc".
C12_FilenameDerivation == [][LosRuleStep]_vars

\* a projected run configured with 20200101_ztd.h5 for both names recorded
\* 20200101_std.h5 for both and handed both to writeDelays
C12_Witness ==
    /\ params.los = "projected"
    /\ params.wetFilenames = <<Name_ztd_h5>>
    /\ params.hydroFilenames = <<Name_ztd_h5>>
    /\ job_state = <<"Routed">>
    /\ delay_dct[1] = <<Name_std_h5, Name_std_h5>>
    /\ Len(writer_calls) = 1
    /\ writer_calls[1].writer = "writeDelays"
    /\ writer_calls[1].file = Name_std_h5
    /\ writer_calls[1].hydro_file = Name_std_h5

\* the name without its extension: up to the last dot, if it has one (the
\* configured names have no directory part and do not begin with a dot)
StemOf(n) ==
    IF \E k \in 1..Len(n) : n[k] = "."
    THEN SubSeq(n, 1, (CHOOSE k \in 1..Len(n) :
                          n[k] = "." /\ \A m \in (k + 1)..Len(n) : n[m] /= ".") - 1)
    ELSE n

\* r is s with its occurrence of old turned into new (s holds old at most once)
TurnedInto(s, r, old, new) ==
    IF \E i \in 1..Len(s) : OccursAt(s, old, i)
    THEN \E i \in 1..Len(s) :
            /\ OccursAt(s, old, i)
            /\ r = SubSeq(s, 1, i - 1) \o new \o SubSeq(s, i + Len(old), Len(s))
    ELSE r = s

\* the writer calls the step makes
NewWriterCalls == SubSeq(writer_calls', Len(writer_calls) + 1, Len(writer_calls'))

Name_wet_tif == <<"2","0","2","0","0","1","0","1","_","w","e","t",".","t","i","f">>
Name_tropo_nc ==
    <<"2","0","2","0","0","1","0","1","_","t","r","o","p","o",".","n","c">>

\* the step that routes a cube
CubeStep ==
    (Writing /\ hydro_delay = None) =>
        LET n == AfterLos(params.los, params.wetFilenames[job])
            e == delay_dct'[params.date_list[job]]
            base == IF EndsWith(n, Ext_nc) \/ EndsWith(n, Ext_h5) THEN n
                    ELSE StemOf(n) \o Ext_nc
        IN  /\ TurnedInto(base, e[1], S_wet, S_tropo)
            /\ EndsWith(e[1], Ext_nc) \/ EndsWith(e[1], Ext_h5)
            /\ EndsWith(e[1], Ext_h5) <=> EndsWith(n, Ext_h5)
            /\ Len(NewWriterCalls) = 1
            /\ NewWriterCalls[1].writer = "to_netcdf"
            /\ NewWriterCalls[1].ds = wet_delay
            /\ NewWriterCalls[1].file = e[1]
            /\ NewWriterCalls[1].engine =
                   (IF EndsWith(e[1], Ext_nc) THEN "netcdf4" ELSE "h5netcdf")
            /\ (params.los = "zenith" /\ params.wetFilenames[job] = Name_wet_tif) =>
                   /\ e[1] = Name_tropo_nc
                   /\ NewWriterCalls[1].engine = "netcdf4"

\* C13: when tropo_delay returned a cube (no hydrostatic result), the final
\* wet name is the name after the line-of-sight rule with its extension
\* turned into ".nc" unless it is ".nc" or ".h5", and with "wet" turned into
\* "tropo"; exactly one writer is called, it is the cube writer of that
\* extension (to_netcdf for ".nc", to_netcdf with the h5netcdf engine for
\* ".h5"), it gets the final name, and writeDelays is not called;
\* "20200101_wet.tif" becomes "20200101_tropo.nc", written by the ".nc" writer.
C13_RouterCubeDispatch == [][CubeStep]_vars

\* the cube of a zenith run configured with 20200101_wet.tif was written to
\* 20200101_tropo.nc by the ".nc" writer
C13_Witness ==
    /\ params.los = "zenith"
    /\ params.wetFilenames = <<Name_wet_tif>>
    /\ job_state = <<"Routed">>
    /\ delay_dct[1][1] = Name_tropo_nc
    /\ Len(writer_calls) = 1
    /\ writer_calls[1].writer = "to_netcdf"
    /\ writer_calls[1].engine = "netcdf4"
    /\ writer_calls[1].file = Name_tropo_nc

\* the step that routes a pair of wet and hydrostatic results
TableStep ==
    (Writing /\ hydro_delay /= None) =>
        LET n == AfterLos(params.los, params.wetFilenames[job])
            e == delay_dct'[params.date_list[job]]
        IN  /\ e[1] = (IF params.aoi.type = "station_file" THEN StemOf(n) \o Ext_csv
                       ELSE n)
            /\ IF params.aoi.type \in {"station_file", "radar_rasters", "geocoded_file"}
               THEN /\ Len(NewWriterCalls) = 1
                    /\ NewWriterCalls[1].writer = "writeDelays"
                    /\ NewWriterCalls[1].wet = wet_delay
                    /\ NewWriterCalls[1].hydro = hydro_delay
                    /\ NewWriterCalls[1].file = e[1]
                    /\ NewWriterCalls[1].hydro_file = e[2]
                    /\ NewWriterCalls[1].outformat =
                           (IF params.raster_format = "nc" THEN "GTiff"
                            ELSE params.raster_format)
               ELSE NewWriterCalls = <<>>

\* C14: when tropo_delay returned a separate hydrostatic result, the wet name
\* of a 'station_file' area gets the extension ".csv" (any other area keeps
\* the name after the line-of-sight rule); for the areas 'station_file',
\* 'radar_rasters' and 'geocoded_file' writeDelays is called exactly once,
\* with the two results, the two final names and the configured raster
\* format, 'GTiff' standing in for 'nc'; for every other area no writer is
\* called; a cube writer is never called.
C14_RouterNonCubeDispatch == [][TableStep]_vars

\* a station file run with the raster format 'nc' called writeDelays once,
\* with a ".csv" wet name and the format 'GTiff'
C14_Witness ==
    /\ params.aoi.type = "station_file"
    /\ params.raster_format = "nc"
    /\ params.wetFilenames = <<Name_wet_tif>>
    /\ job_state = <<"Routed">>
    /\ Len(writer_calls) = 1
    /\ writer_calls[1].writer = "writeDelays"
    /\ writer_calls[1].outformat = "GTiff"
    /\ EndsWith(writer_calls[1].file, Ext_csv)
    /\ delay_dct[1][1] = writer_calls[1].file

-----------------------------------------------------------------------------
(* Claims about the credential store, checked under SpecOrbits *)

\* read and write for the owner, nothing for the group and for others
OwnerOnly == {"S_IRUSR", "S_IWUSR"}

\* the running call entered ensure_orbit_credentials without a ~/.netrc
StoreWasAbsent == Ensuring /\ pc /= "idle" /\ ~store_at_entry.exists

\* the call that found no file has created it for the owner only, also when
\* it then found nothing to load and no credentials to store
CreatedOwnerOnly ==
    StoreWasAbsent =>
        /\ netrc_file.exists
        /\ netrc_file.mode = OwnerOnly
        /\ outcome = Raised(ValueError) => netrc_file.text = <<>>
        /\ store_writes > 0 => ESA_CDSE_HOST \in DOMAIN netrc_file.text

\* a step creates the file only inside ensure_orbit_credentials and only for
\* the owner, and no step changes the permission bits of a file that exists
\* or removes it
ModeStep ==
    /\ (~netrc_file.exists /\ netrc_file'.exists) =>
           /\ pc = "idle"
           /\ caller' \in {"ensure_orbit_credentials", "get_orbits_from_slc_ids"}
           /\ netrc_file'.mode = OwnerOnly
    /\ netrc_file.exists =>
           /\ netrc_file'.exists
           /\ netrc_file'.mode = netrc_file.mode

\* C15: a call of ensure_orbit_credentials that finds no ~/.netrc creates it
\* with the permission bits 0o600 before it loads it, and from then on, also
\* after the record is written, the bits stay as they are: a store created
\* here is never readable or writable by the group or by others.
C15_OwnerOnlyStoreCreation == [](CreatedOwnerOnly) /\ [][ModeStep]_vars

\* a call of get_orbits_from_slc_ids that found no ~/.netrc created it, wrote
\* the record and went on to a download, the file still being the owner's only
C15_Witness ==
    /\ caller = "get_orbits_from_slc_ids"
    /\ ~store_at_entry.exists
    /\ store_writes = 1
    /\ eof_calls /= <<>>
    /\ netrc_file.exists
    /\ netrc_file.mode = OwnerOnly
    /\ ESA_CDSE_HOST \in DOMAIN netrc_file.text

\* during a call of get_orbits_from_slc_ids the file was written at most
\* once, not at all when it held the record or when the call raised
\* ValueError, and a call without a write left the text as it found it
WriteBudget ==
    InGetOrbits =>
        /\ store_writes <= 1
        /\ HadRecord => store_writes = 0
        /\ outcome = Raised(ValueError) => store_writes = 0
        /\ store_writes = 0 => netrc_file.text = store_at_entry.text

\* the write belongs to the step that enters the call, before any download
\* attempt, and the steps of the parsing and of the download loop leave the
\* file and the count of writes alone
WriteStep ==
    /\ store_writes' > store_writes => (pc = "idle" /\ eof_calls' = <<>>)
    /\ netrc_file' /= netrc_file => (pc = "idle" /\ eof_calls' = <<>>)
    /\ pc \in {"parse", "try", "except"} =>
           /\ netrc_file' = netrc_file
           /\ store_writes' = store_writes

\* C16: one call of get_orbits_from_slc_ids writes the credential store at
\* most once, the write (if any) is made by ensure_orbit_credentials before
\* the first download attempt, and no step of the download loop, primary or
\* fallback, changes the store.
C16_StoreWriteBudget == [](WriteBudget) /\ [][WriteStep]_vars

\* a call that wrote the record once and then needed the fallback for its
\* first pair, with the store as ensure_orbit_credentials left it
C16_Witness ==
    /\ InGetOrbits
    /\ store_writes = 1
    /\ Len(eof_calls) >= 2
    /\ ~eof_calls[2].force_asf
    /\ netrc_file.text /= store_at_entry.text
    /\ netrc_file.text[ESA_CDSE_HOST].login = "user"

-----------------------------------------------------------------------------
(* Claims about the states of a job, checked under SpecDelays *)

\* the moves of a job
JobMoves ==
    {<<"Pending", "WeatherModelReady">>, <<"Pending", "FailedWeatherModel">>,
     <<"WeatherModelReady", "DelayComputed">>, <<"WeatherModelReady", "FailedDelay">>,
     <<"DelayComputed", "Routed">>}

\* a step moves at most the job the loop is at, along JobMoves; tropo_delay
\* is called only for a job whose weather model is ready, and names are
\* recorded and writers called only for a job whose delays are computed
JobStateStep ==
    /\ Len(job_state') = Len(job_state)
    /\ \A k \in 1..Len(job_state) :
          \/ job_state'[k] = job_state[k]
          \/ k = job /\ <<job_state[k], job_state'[k]>> \in JobMoves
    /\ Len(delay_calls') > Len(delay_calls) =>
          /\ job_state[job] = "WeatherModelReady"
          /\ delay_calls'[Len(delay_calls')].weather_model_file /= None
    /\ (writer_calls' /= writer_calls \/ delay_dct' /= delay_dct) =>
          /\ job_state[job] = "DelayComputed"
          /\ job_state'[job] = "Routed"

\* a failed job has had no call of tropo_delay after a failed weather model,
\* and has no recorded names and no written file (the names of a job begin
\* with its date, so for distinct dates they tell the jobs apart)
FailedJobsUntouched ==
    /\ Len(delay_calls) =
           Len(JobsIn({"DelayComputed", "Routed", "FailedDelay"}, 1))
           + (IF dpc = "raised" /\ d_outcome.value.step = "tropo_delay" THEN 1 ELSE 0)
    /\ Cardinality(DOMAIN delay_dct) <= Len(JobsIn({"Routed"}, 1))
    /\ Len(writer_calls) <= Len(JobsIn({"Routed"}, 1))
    /\ \A k \in 1..Len(job_state) :
          (DistinctDates /\ job_state[k] \in FailedStates) =>
              /\ params.date_list[k] \notin DOMAIN delay_dct
              /\ \A i \in 1..Len(writer_calls) :
                     Prefix(writer_calls[i].file, 8) /= DateStr(params.date_list[k])
              /\ job_state[k] = "FailedWeatherModel" =>
                     \A i \in 1..Len(delay_calls) :
                         delay_calls[i].date /= params.date_list[k]

\* C17: a job moves only along Pending -> WeatherModelReady -> DelayComputed
\* -> Routed, or from Pending or WeatherModelReady to Failed; tropo_delay is
\* never called for a job whose weather model step failed, no name is
\* recorded and no writer called for a failed job, and a Failed or Routed job
\* stays as it is.
C17_JobStateMachine == [](FailedJobsUntouched) /\ [][JobStateStep]_vars

\* a run that has one job of each end: failed in the weather model step,
\* failed in the delay step, and routed
C17_Witness ==
    /\ dpc = "returned"
    /\ DistinctDates
    /\ job_state = <<"FailedWeatherModel", "FailedDelay", "Routed">>
    /\ Len(delay_calls) = 2
    /\ DOMAIN delay_dct = {params.date_list[3]}

-----------------------------------------------------------------------------
(* Claims about the bounds, the download-only mode and the mapping         *)
(* returned, checked under SpecDelays                                      *)

\* the SNWE bounds b moved outwards by one on every side
ExpandedByOne(b) == <<b[1] - 1, b[2] + 1, b[3] - 1, b[4] + 1>>

\* C18: every call of prepareWeatherModel gets the bounds of the area of
\* interest expanded by the buffer 1 when the line of sight is ray-traced,
\* and the bounds as they are when it is not; the two differ.
C18_BoundsSelection ==
    \A j \in 1..Len(wm_calls) :
        /\ ExpandedByOne(params.aoi.bounds) /= params.aoi.bounds
        /\ wm_calls[j].ll_bounds = ExpandedByOne(params.aoi.bounds)
               <=> params.los = "rayTraced"
        /\ wm_calls[j].ll_bounds = params.aoi.bounds <=> params.los /= "rayTraced"

\* a ray-traced run called prepareWeatherModel with the bounds 10, 12, 20, 22
\* of its area widened to 9, 13, 19, 23, for each of its two jobs
C18_Witness ==
    /\ params.los = "rayTraced"
    /\ params.aoi.bounds = <<10, 12, 20, 22>>
    /\ Len(wm_calls) = 2
    /\ wm_calls[1].ll_bounds = <<9, 13, 19, 23>>
    /\ wm_calls[2].ll_bounds = <<9, 13, 19, 23>>

\* the run is download-only: by its parameters or by the command line
DownloadOnlyRun == params.download_only \/ args.download_only

\* C19: in a download-only run (the flag set in the parameters or on the
\* command line) prepareWeatherModel is called, with download_only set, for
\* the jobs in turn, tropo_delay and the writers are never called, no job
\* gets past the weather model step, and calcDelays, having called
\* prepareWeatherModel for every job, returns an empty mapping.
C19_DownloadOnly ==
    DownloadOnlyRun =>
        /\ delay_calls = <<>>
        /\ writer_calls = <<>>
        /\ delay_dct = <<>>
        /\ \A j \in 1..Len(wm_calls) :
              /\ wm_calls[j].download_only
              /\ wm_calls[j].date = params.date_list[j]
        /\ \A k \in 1..Len(job_state) :
              job_state[k] \in {"Pending", "WeatherModelReady", "FailedWeatherModel"}
        /\ dpc /= "delay" /\ dpc /= "write"
        /\ dpc = "returned" =>
              /\ Len(wm_calls) = Len(params.date_list)
              /\ d_outcome = Returned(DictVal(<<>>))

\* a run made download-only by the command line alone returned an empty
\* mapping after three jobs, two of which had their weather model ready
C19_Witness ==
    /\ args.download_only
    /\ ~params.download_only
    /\ dpc = "returned"
    /\ job_state = <<"WeatherModelReady", "FailedWeatherModel", "WeatherModelReady">>
    /\ Len(wm_calls) = 3
    /\ d_outcome = Returned(DictVal(<<>>))

\* the dates of the routed jobs
RoutedDates == {params.date_list[k] : k \in {j \in 1..Len(job_state) : job_state[j] = "Routed"}}

\* the keys of the mapping are the dates of the routed jobs, and the mapping
\* returned is that mapping
KeysAreRoutedDates ==
    /\ DOMAIN delay_dct = RoutedDates
    /\ DownloadOnlyRun => RoutedDates = {}
    /\ dpc = "returned" =>
          /\ d_outcome.kind = "return"
          /\ d_outcome.value = DictVal(delay_dct)
          /\ DOMAIN d_outcome.value.items =
                 {params.date_list[k] :
                     k \in {j \in 1..Len(job_state) : job_state[j] = "Routed"}}

\* the step that ends a job records the final wet name and the hydrostatic
\* name under the date of the job, in the place of what the date had, and
\* leaves the other dates alone; it does so when no writer is called and when
\* only the cube is written
RecordStep ==
    Writing =>
        LET t == params.date_list[job]
            w == AfterLos(params.los, params.wetFilenames[job])
            e == delay_dct'[t]
        IN  /\ DOMAIN delay_dct' = DOMAIN delay_dct \cup {t}
            /\ \A d \in DOMAIN delay_dct \ {t} : delay_dct'[d] = delay_dct[d]
            /\ Len(e) = 2
            /\ e[2] = AfterLos(params.los, params.hydroFilenames[job])
            /\ IF hydro_delay = None
               THEN /\ TurnedInto(IF EndsWith(w, Ext_nc) \/ EndsWith(w, Ext_h5) THEN w
                                  ELSE StemOf(w) \o Ext_nc, e[1], S_wet, S_tropo)
                    /\ \A i \in 1..Len(NewWriterCalls) : NewWriterCalls[i].file /= e[2]
               ELSE /\ e[1] = (IF params.aoi.type = "station_file"
                               THEN StemOf(w) \o Ext_csv ELSE w)
                    /\ params.aoi.type = "bounding_box" => NewWriterCalls = <<>>

\* C20: the keys of the mapping calcDelays returns are the dates of the jobs
\* that passed both engine steps, none in a download-only run; such a job
\* gets its entry (final wet name, hydrostatic name) also when no writer was
\* called for it and when only the cube was written, and the entry of a date
\* is that of the last such job with the date.
C20_OutcomeMappingKeys == [](KeysAreRoutedDates) /\ [][RecordStep]_vars

\* two jobs of the same date over a bounding box: the first returned a cube,
\* the second a pair for which nothing was written, and the one entry of the
\* mapping returned is that of the second
C20_Witness ==
    /\ dpc = "returned"
    /\ params.date_list = <<1, 1>>
    /\ params.aoi.type = "bounding_box"
    /\ params.los = "zenith"
    /\ job_state = <<"Routed", "Routed">>
    /\ Len(writer_calls) = 1
    /\ writer_calls[1].writer = "to_netcdf"
    /\ DOMAIN d_outcome.value.items = {1}
    /\ d_outcome.value.items[1] = <<params.wetFilenames[2], params.hydroFilenames[2]>>
    /\ writer_calls[1].file /= d_outcome.value.items[1][1]

-----------------------------------------------------------------------------
(* Claims about the count check of download_eofs, checked under SpecOrbits *)

\* download_eofs is running or has ended, directly or through
\* get_orbits_from_slc_ids
DownloadEntered == pc \in {"try", "except"} \/ (pc = "done" /\ InDownload)

\* the count check ended the call
CountCheckFired == outcome = Raised(MissingError)

\* the loop has appended one file for each pair it has gone past, and makes
\* no more passes than the shorter list has elements
OneFilePerPass ==
    DownloadEntered =>
        /\ Len(orb_files) = idx - 1
        /\ idx <= Min(Len(dts), Len(missions)) + 1
        /\ Len(orb_files) =
               Cardinality({n \in 1..Len(eof_calls) : eof_calls[n].result = "ok"})

\* an empty list from the primary is followed by the call of the secondary
\* for the same pair, an empty list from the secondary ends the call with the
\* IndexError of the subscript, and neither adds a file
EmptyListIsFailure ==
    \A n \in 1..Len(eof_calls) :
        eof_calls[n].result = "empty" =>
            IF eof_calls[n].force_asf
            THEN IF n = Len(eof_calls) THEN pc = "except"
                 ELSE /\ ~eof_calls[n + 1].force_asf
                      /\ eof_calls[n + 1].dts = eof_calls[n].dts
                      /\ eof_calls[n + 1].missions = eof_calls[n].missions
            ELSE /\ n = Len(eof_calls)
                 /\ pc = "done"
                 /\ outcome.kind = "raise"
                 /\ outcome.value.type = "IndexError"
                 /\ Len(orb_files) < Len(dts)

\* C21: the count check after the loop of download_eofs ends the call only
\* when the mission list is shorter than the list of time tokens (the loop
\* then made one pass per mission); with lists of equal length, as in every
\* call through get_orbits_from_slc_ids, each pass appends exactly one file or
\* raises, so the call never ends with the count error and a list it returns
\* has one file per time token; an empty list from a provider is a failure
\* of the primary (answered by the secondary) or the error of the secondary
\* that ends the call, never a missing element of the list returned.
C21_CountCheckReachability ==
    /\ OneFilePerPass
    /\ EmptyListIsFailure
    /\ CountCheckFired =>
          /\ Len(missions) < Len(dts)
          /\ Len(orb_files) = Len(missions)
          /\ caller = "download_eofs"
    /\ (DownloadEntered /\ InGetOrbits) => Len(dts) = Len(missions)
    /\ (DownloadEntered /\ Len(dts) = Len(missions)) => ~CountCheckFired
    /\ (DownloadEntered /\ outcome.kind = "return") =>
          /\ Len(missions) >= Len(dts)
          /\ Len(outcome.value.items) = Len(dts)

\* a direct call with two time tokens and one mission: the primary returned
\* an empty list, the secondary a file, the loop ended after its one pass and
\* the count check raised
C21_Witness ==
    /\ caller = "download_eofs"
    /\ Len(dts) = 2
    /\ Len(missions) = 1
    /\ Len(eof_calls) = 2
    /\ eof_calls[1].result = "empty"
    /\ eof_calls[2].result = "ok"
    /\ Len(orb_files) = 1
    /\ CountCheckFired

====
